---- MODULE Spec2Model ----
(***************************************************************************)
(* A model of app.py: a Streamlit script that extracts the text of         *)
(* uploaded PDF files, asks a hosted LLM for a summary and for question /  *)
(* answer pairs, and shows or exports the results.                         *)
(*                                                                         *)
(* Two specifications are given.  Spec is one run of main() (the script    *)
(* as Streamlit executes it).  SpecApi is one direct invocation of         *)
(* extract_text_from_pdf, generate_summary or generate_custom_qa with      *)
(* arguments drawn from bounded sets.                                      *)
(*                                                                         *)
(* A Python function is an operator that returns what the call does: its   *)
(* return value (ret), the exception that escapes it (exc, "none" when it  *)
(* returns), and its effects.  What the outside world answers (whether a   *)
(* PDF can be read, what the LLM replies) is an argument of the operator,  *)
(* chosen by the action that applies it.                                   *)
(***************************************************************************)
EXTENDS Integers, Sequences, FiniteSets, TLC

VARIABLES
    pc,              \* position of the script, or of the direct invocation
    GOOGLE_API_KEY,  \* config.GOOGLE_API_KEY: a sequence of characters
    uploaded_files,  \* the value of st.file_uploader
    results,         \* what process_multiple_pdfs returned
    selected_text,   \* single file analysis: the text extracted from the selected file
    idx,             \* index of the next file of the loop of process_multiple_pdfs
    extractCalls,    \* number of calls of extract_text_from_pdf
    disk,            \* paths of the temporary files that exist
    llmCalls,        \* every model.generate_content call, in order
    stErrors,        \* every st.error message, in order
    uncaught,        \* the exception that ended the run, "none" if none did
    shown,           \* number of batch results fully written to the page
    downloads,       \* labels of the st.download_button offered
    invocation,      \* SpecApi: the function invoked and its arguments
    outcome          \* SpecApi: what the invocation returned or raised

vars == <<pc, GOOGLE_API_KEY, uploaded_files, results, selected_text, idx,
          extractCalls, disk, llmCalls, stErrors, uncaught, shown, downloads,
          invocation, outcome>>

----------------------------------------------------------------------------
(* Bounds of the model. *)

\* Largest number of files uploaded in one run.
MaxFiles == 3

\* How far past the truncation limit the longest input text goes.
ExtraLen == 2

(* Program constants. *)

\* text[:5000] in generate_summary.
SummaryTextLimit == 5000

\* text[:5000] in generate_custom_qa.
QaTextLimit == 5000

\* process_multiple_pdfs asks for 3 questions per file.
BatchNumQuestions == 3

----------------------------------------------------------------------------
(* Python values, tagged with their type. *)

None == [t |-> "None", v |-> <<>>]
Str(s) == [t |-> "str", v |-> s]
PyInt(n) == [t |-> "int", v |-> n]
PyList(l) == [t |-> "list", v |-> l]
PyDict(d) == [t |-> "dict", v |-> d]

\* bool(x), as `if x:` tests it.
Truthy(x) ==
    CASE x.t = "None" -> FALSE
      [] x.t = "str"  -> Len(x.v) > 0
      [] x.t = "list" -> Len(x.v) > 0
      [] x.t = "int"  -> x.v # 0
      [] x.t = "dict" -> DOMAIN x.v # {}

\* s[:n] for n >= 0.
Slice(s, n) == SubSeq(s, 1, IF Len(s) < n THEN Len(s) ELSE n)

\* The classes `except Exception` catches.  SystemExit and KeyboardInterrupt
\* derive from BaseException only.
ExceptionClasses ==
    {"IOError", "FileDataError", "RuntimeError", "PdfReadError", "ServiceError",
     "SyntaxError", "NameError", "KeyError", "TypeError", "ValueError"}

IsException(e) == e \in ExceptionClasses

----------------------------------------------------------------------------
(* Uploaded files.  A file is what the parsers can observe of it: whether  *)
(* its bytes can be read, whether they are a well-formed PDF, and for each *)
(* page whether its text can be extracted and what that text is.           *)

PageOk(text) == [ok |-> TRUE, text |-> text]
PageBad == [ok |-> FALSE, text |-> <<>>]

PdfKinds ==
    { [readable |-> TRUE,  wellformed |-> TRUE,
       pages |-> <<PageOk(<<"a", "b">>), PageOk(<<"c">>)>>],   \* two pages of text
      [readable |-> TRUE,  wellformed |-> TRUE,
       pages |-> <<PageOk(<<>>)>>],                            \* a page without text
      [readable |-> TRUE,  wellformed |-> FALSE, pages |-> <<>>],  \* malformed PDF
      [readable |-> TRUE,  wellformed |-> TRUE,
       pages |-> <<PageOk(<<"a">>), PageBad>>],                \* a page that cannot be read
      [readable |-> FALSE, wellformed |-> TRUE,  pages |-> <<>>] } \* unreadable stream

FileNames == <<"f1.pdf", "f2.pdf", "f3.pdf", "f4.pdf">>

UploadedFile(i, k) ==
    [name |-> FileNames[i], readable |-> k.readable,
     wellformed |-> k.wellformed, pages |-> k.pages]

\* Every value st.file_uploader can have with at most MaxFiles files.
Uploads ==
    UNION { { [i \in 1..n |-> UploadedFile(i, ks[i])] : ks \in [1..n -> PdfKinds] }
            : n \in 0..MaxFiles }

----------------------------------------------------------------------------
(* extract_text_from_pdf *)

\* tempfile.NamedTemporaryFile: a path that does not exist yet.
FreshPath(fs) == IF fs = {} THEN 1 ELSE 1 + CHOOSE p \in fs : \A q \in fs : q <= p

\* `for page in ...: text += page text`: stops at the first page that raises.
RECURSIVE get_pages_text(_, _, _)
get_pages_text(pages, i, text) ==
    IF i > Len(pages) THEN [exc |-> "none", text |-> text]
    ELSE IF ~pages[i].ok THEN [exc |-> "RuntimeError", text |-> text]
    ELSE get_pages_text(pages, i + 1, text \o pages[i].text)

\* Lines 32-43: the body of the try block for PyMuPDF.  The temporary file is
\* created with delete=False and unlinked only after the last page was read.
extract_pymupdf(pdf_file, fs) ==
    LET tmp_path == FreshPath(fs)
        created  == fs \cup {tmp_path}
        read     == get_pages_text(pdf_file.pages, 1, <<>>)
    IN  IF ~pdf_file.readable
        THEN [ret |-> None, exc |-> "IOError", fs |-> created]
        ELSE IF ~pdf_file.wellformed
        THEN [ret |-> None, exc |-> "FileDataError", fs |-> created]
        ELSE IF read.exc # "none"
        THEN [ret |-> None, exc |-> read.exc, fs |-> created]
        ELSE [ret |-> Str(read.text), exc |-> "none", fs |-> created \ {tmp_path}]

\* Lines 46-50: the body of the try block for PyPDF2.
extract_pypdf2(pdf_file, fs) ==
    LET read == get_pages_text(pdf_file.pages, 1, <<>>)
    IN  IF ~pdf_file.readable
        THEN [ret |-> None, exc |-> "IOError", fs |-> fs]
        ELSE IF ~pdf_file.wellformed
        THEN [ret |-> None, exc |-> "PdfReadError", fs |-> fs]
        ELSE IF read.exc # "none"
        THEN [ret |-> None, exc |-> read.exc, fs |-> fs]
        ELSE [ret |-> Str(read.text), exc |-> "none", fs |-> fs]

\* extract_text_from_pdf with the temporary copy written before the try block:
\* an unreadable stream raises to the caller.
extract_text_from_pdf_copy_outside_try(pdf_file, parser_choice, fs) ==
    LET body == IF parser_choice = "PyMuPDF"
                THEN extract_pymupdf(pdf_file, fs)
                ELSE extract_pypdf2(pdf_file, fs)
    IN  IF body.exc = "none"
        THEN [ret |-> body.ret, exc |-> "none", fs |-> body.fs, errors |-> <<>>]
        ELSE IF parser_choice = "PyMuPDF" /\ ~pdf_file.readable
        THEN [ret |-> None, exc |-> body.exc, fs |-> body.fs, errors |-> <<>>]
        ELSE [ret |-> None, exc |-> "none", fs |-> body.fs,
              errors |-> <<[op |-> "extract", cause |-> body.exc]>>]

\* Lines 29-53: try: ... except Exception as e: st.error(...); return None.
extract_text_from_pdf(pdf_file, parser_choice, fs) ==
    LET body == IF parser_choice = "PyMuPDF"
                THEN extract_pymupdf(pdf_file, fs)
                ELSE extract_pypdf2(pdf_file, fs)
    IN  IF body.exc = "none"
        THEN [ret |-> body.ret, exc |-> "none", fs |-> body.fs, errors |-> <<>>]
        ELSE IF IsException(body.exc)
        THEN [ret |-> None, exc |-> "none", fs |-> body.fs,
              errors |-> <<[op |-> "extract", cause |-> body.exc]>>]
        ELSE [ret |-> None, exc |-> body.exc, fs |-> body.fs, errors |-> <<>>]

----------------------------------------------------------------------------
(* The LLM service.  model.generate_content(prompt) either raises or       *)
(* returns a response whose .text is a string; a string is a sequence of   *)
(* lexemes.  The reply to a call is chosen by the environment.             *)

QA1 == "{'question': 'q1', 'answer': 'a1'}"
QA2 == "{'question': 'q2', 'answer': 'a2'}"
QNoAnswer == "{'question': 'q1'}"

RespEmpty == <<>>
RespProse == <<"Here", "is", "the", "answer">>
RespInt == <<"42">>
RespGood == <<"[", QA1, ",", QA2, "]">>
RespNoAnswer == <<"[", QA1, ",", QNoAnswer, "]">>

ResponseTexts == {RespEmpty, RespProse, RespInt, RespGood, RespNoAnswer}

LlmReplies ==
    {[exc |-> "ServiceError", text |-> <<>>]}
        \cup {[exc |-> "none", text |-> t] : t \in ResponseTexts}

\* The replies a summary request is answered with: a service error, an empty
\* text, a text.
SummaryReplies ==
    {r \in LlmReplies : r.exc # "none" \/ r.text \in {RespEmpty, RespProse}}

----------------------------------------------------------------------------
(* eval(response.text): Python's evaluation of the lexemes as an           *)
(* expression.  Covered: a dict display, an integer, a list display of    *)
(* these, a bare name (not bound: NameError); anything else is not an     *)
(* expression.  Texts that call functions are not among the replies.       *)

Punctuation == {"[", "]", ","}

PyAtom(tok) ==
    CASE tok = QA1 ->
           [exc |-> "none", val |-> PyDict([question |-> "q1", answer |-> "a1"])]
      [] tok = QA2 ->
           [exc |-> "none", val |-> PyDict([question |-> "q2", answer |-> "a2"])]
      [] tok = QNoAnswer ->
           [exc |-> "none", val |-> PyDict([question |-> "q1"])]
      [] tok = "42" -> [exc |-> "none", val |-> PyInt(42)]
      [] tok \in Punctuation -> [exc |-> "SyntaxError", val |-> None]
      [] OTHER -> [exc |-> "NameError", val |-> None]

\* The elements of a list display, evaluated left to right; the first
\* exception ends the evaluation.
RECURSIVE PyElements(_, _, _)
PyElements(toks, i, acc) ==
    IF i > Len(toks) THEN [exc |-> "none", val |-> PyList(acc)]
    ELSE LET a == PyAtom(toks[i])
         IN  IF a.exc # "none" THEN a
             ELSE PyElements(toks, i + 2, Append(acc, a.val))

\* expr (, expr)* : elements at the odd places, commas at the even ones.
IsElementList(toks) ==
    /\ Len(toks) % 2 = 1
    /\ \A i \in 1..Len(toks) :
          IF i % 2 = 1 THEN toks[i] \notin Punctuation ELSE toks[i] = ","

PyEval(text) ==
    IF Len(text) = 0 THEN [exc |-> "SyntaxError", val |-> None]
    ELSE IF Len(text) = 1 THEN PyAtom(text[1])
    ELSE IF text[1] = "[" /\ text[Len(text)] = "]"
    THEN LET inner == SubSeq(text, 2, Len(text) - 1)
         IN  IF Len(inner) = 0 THEN [exc |-> "none", val |-> PyList(<<>>)]
             ELSE IF IsElementList(inner) THEN PyElements(inner, 1, <<>>)
             ELSE [exc |-> "SyntaxError", val |-> None]
    ELSE [exc |-> "SyntaxError", val |-> None]

----------------------------------------------------------------------------
(* generate_summary *)

\* Lines 58-65: the f-string, as its template and the values put in it.
summary_prompt(text) ==
    [template |-> "summary", n |-> 0, text |-> Slice(text, SummaryTextLimit)]

\* Lines 67-72.
generate_summary(text, reply) ==
    LET prompt == summary_prompt(text)
    IN  IF reply.exc = "none"
        THEN [ret |-> Str(reply.text), exc |-> "none",
              calls |-> <<prompt>>, errors |-> <<>>]
        ELSE IF IsException(reply.exc)
        THEN [ret |-> None, exc |-> "none", calls |-> <<prompt>>,
              errors |-> <<[op |-> "summary", cause |-> reply.exc]>>]
        ELSE [ret |-> None, exc |-> reply.exc, calls |-> <<prompt>>, errors |-> <<>>]

----------------------------------------------------------------------------
(* generate_custom_qa *)

\* Lines 77-82: the keys of prompt_templates, each with its template.
prompt_templates ==
    [factual |-> "Generate {n} factual questions",
     conceptual |-> "Generate {n} conceptual questions",
     analytical |-> "Generate {n} analytical questions",
     application |-> "Generate {n} questions that ask how the concepts can be applied"]

\* qa_prompt with the whole text put in the template.
qa_prompt_untruncated(text, question_type, num_questions) ==
    [template |-> prompt_templates[question_type], n |-> num_questions,
     text |-> text]

\* Lines 84-90, once prompt_templates[question_type] was found.
qa_prompt(text, question_type, num_questions) ==
    [template |-> prompt_templates[question_type], n |-> num_questions,
     text |-> Slice(text, QaTextLimit)]

\* Lines 92-97: try: eval(response.text) except Exception: st.error; None.
qa_request(prompt, reply) ==
    LET ev == PyEval(reply.text)
        exc == IF reply.exc # "none" THEN reply.exc ELSE ev.exc
    IN  IF exc = "none"
        THEN [ret |-> ev.val, exc |-> "none", calls |-> <<prompt>>, errors |-> <<>>]
        ELSE IF IsException(exc)
        THEN [ret |-> None, exc |-> "none", calls |-> <<prompt>>,
              errors |-> <<[op |-> "qa", cause |-> exc]>>]
        ELSE [ret |-> None, exc |-> exc, calls |-> <<prompt>>, errors |-> <<>>]

\* generate_custom_qa with prompt_templates.get(question_type, <factual>): an
\* unknown type silently asks for factual questions.
generate_custom_qa_default_type(text, question_type, num_questions, reply) ==
    qa_request(qa_prompt(text,
                         IF question_type \in DOMAIN prompt_templates
                         THEN question_type ELSE "factual",
                         num_questions), reply)

\* Lines 75-97.  The lookup prompt_templates[question_type] is outside the
\* try block: a KeyError escapes.
generate_custom_qa(text, question_type, num_questions, reply) ==
    IF question_type \notin DOMAIN prompt_templates
    THEN [ret |-> None, exc |-> "KeyError", calls |-> <<>>, errors |-> <<>>]
    ELSE qa_request(qa_prompt(text, question_type, num_questions), reply)

----------------------------------------------------------------------------
(* process_multiple_pdfs *)

\* process_file with the Q&A request made only when the summary was generated.
process_file_qa_after_summary_only(file, acc, fs, summaryReply, qaReply) ==
    LET ex == extract_text_from_pdf(file, "PyMuPDF", fs)
        s  == generate_summary(ex.ret.v, summaryReply)
        q  == IF s.ret.t = "None"
              THEN [ret |-> None, exc |-> "none", calls |-> <<>>, errors |-> <<>>]
              ELSE generate_custom_qa(ex.ret.v, "factual", BatchNumQuestions, qaReply)
    IN  IF ~Truthy(ex.ret)
        THEN [results |-> acc, exc |-> "none", fs |-> ex.fs,
              calls |-> <<>>, errors |-> ex.errors]
        ELSE [results |-> Append(acc, [filename |-> file.name,
                                       summary |-> s.ret, qa_pairs |-> q.ret]),
              exc |-> "none", fs |-> ex.fs,
              calls |-> s.calls \o q.calls,
              errors |-> ex.errors \o s.errors \o q.errors]

\* Lines 105-114: one iteration of `for file in files`, from the results so
\* far.  extract_text_from_pdf is called with its default parser.
process_file(file, acc, fs, summaryReply, qaReply) ==
    LET ex == extract_text_from_pdf(file, "PyMuPDF", fs)
        s  == generate_summary(ex.ret.v, summaryReply)
        q  == generate_custom_qa(ex.ret.v, "factual", BatchNumQuestions, qaReply)
    IN  IF ex.exc # "none"
        THEN [results |-> acc, exc |-> ex.exc, fs |-> ex.fs,
              calls |-> <<>>, errors |-> ex.errors]
        ELSE IF ~Truthy(ex.ret)
        THEN [results |-> acc, exc |-> "none", fs |-> ex.fs,
              calls |-> <<>>, errors |-> ex.errors]
        ELSE IF s.exc # "none"
        THEN [results |-> acc, exc |-> s.exc, fs |-> ex.fs,
              calls |-> s.calls, errors |-> ex.errors \o s.errors]
        ELSE IF q.exc # "none"
        THEN [results |-> acc, exc |-> q.exc, fs |-> ex.fs,
              calls |-> s.calls \o q.calls,
              errors |-> ex.errors \o s.errors \o q.errors]
        ELSE [results |-> Append(acc, [filename |-> file.name,
                                       summary |-> s.ret, qa_pairs |-> q.ret]),
              exc |-> "none", fs |-> ex.fs,
              calls |-> s.calls \o q.calls,
              errors |-> ex.errors \o s.errors \o q.errors]

----------------------------------------------------------------------------
(* main: showing question / answer pairs *)

\* qa['question'] and qa['answer'] for one element of the iteration.
qa_lookup(qa) ==
    IF qa.t # "dict" THEN "TypeError"
    ELSE IF "question" \notin DOMAIN qa.v THEN "KeyError"
    ELSE IF "answer" \notin DOMAIN qa.v THEN "KeyError"
    ELSE "none"

\* The values `for i, qa in enumerate(x, 1)` binds qa to, when x is iterable.
Iterable(x) == x.t \in {"list", "str", "dict"}

Elements(x) ==
    CASE x.t = "list" -> x.v
      [] x.t = "str"  -> [i \in 1..Len(x.v) |-> Str(<<x.v[i]>>)]
      [] x.t = "dict" -> <<>>

\* Lines 184-186 and 216-219: the exception the loop over qa_pairs ends with.
show_qa(qa_pairs) ==
    IF ~Iterable(qa_pairs) THEN "TypeError"
    ELSE IF qa_pairs.t = "dict" /\ DOMAIN qa_pairs.v # {} THEN "TypeError"
    ELSE LET els == Elements(qa_pairs)
             bad == {i \in 1..Len(els) : qa_lookup(els[i]) # "none"}
         IN  IF bad = {} THEN "none"
             ELSE qa_lookup(els[CHOOSE i \in bad : \A j \in bad : i <= j])

\* Lines 206-228: `if results:` and what follows.
RECURSIVE show_results(_, _)
show_results(res, i) ==
    IF i > Len(res)
    THEN [exc |-> "none", shown |-> Len(res), downloads |-> {"Download All Results"}]
    ELSE LET e == show_qa(res[i].qa_pairs)
         IN  IF e # "none" THEN [exc |-> e, shown |-> i - 1, downloads |-> {}]
             ELSE show_results(res, i + 1)

display_results(res) ==
    IF Len(res) = 0 THEN [exc |-> "none", shown |-> 0, downloads |-> {}]
    ELSE show_results(res, 1)

----------------------------------------------------------------------------
(* main: single file analysis *)

\* Lines 181-196: what main does with the value generate_custom_qa returned.
single_qa_shown(qa_pairs) ==
    LET e == IF Truthy(qa_pairs) THEN show_qa(qa_pairs) ELSE "none"
    IN  [exc |-> e,
         downloads |-> IF Truthy(qa_pairs) /\ e = "none"
                       THEN {"Download Q&A"} ELSE {}]

----------------------------------------------------------------------------
(* configure_gemini *)

\* configure_gemini that prints the message and goes on without exit().
configure_gemini_no_exit(key) ==
    [ret |-> Str(<<"gemini-pro">>), exc |-> "none"]

\* Lines 16-24: exit() when the key is empty, the model handle otherwise.
configure_gemini(key) ==
    IF Len(key) = 0
    THEN [ret |-> None, exc |-> "SystemExit"]
    ELSE [ret |-> Str(<<"gemini-pro">>), exc |-> "none"]

----------------------------------------------------------------------------
(* One run of main. *)

NoOutcome == [ret |-> None, exc |-> "none"]

Init ==
    /\ pc = "start"
    /\ GOOGLE_API_KEY \in {<<>>, <<"k", "e", "y">>}
    /\ uploaded_files \in Uploads
    /\ results = <<>>
    /\ selected_text = None
    /\ idx = 0
    /\ extractCalls = 0
    /\ disk = {}
    /\ llmCalls = <<>>
    /\ stErrors = <<>>
    /\ uncaught = "none"
    /\ shown = 0
    /\ downloads = {}
    /\ invocation = [f |-> "main"]
    /\ outcome = NoOutcome

\* Line 129: model = configure_gemini().
Configure ==
    /\ pc = "start"
    /\ LET c == configure_gemini(GOOGLE_API_KEY)
       IN  /\ uncaught' = c.exc
           /\ pc' = IF c.exc # "none" THEN "exited" ELSE "configured"
    /\ UNCHANGED <<GOOGLE_API_KEY, uploaded_files, results, selected_text, idx,
                   extractCalls, disk, llmCalls, stErrors, shown, downloads,
                   invocation, outcome>>

\* Lines 140-149: no file uploaded ends the run; otherwise the radio button
\* picks the analysis.
ChooseAnalysis ==
    /\ pc = "configured"
    /\ \E analysis_type \in {"Single File Analysis", "Batch Analysis"} :
          pc' = IF Len(uploaded_files) = 0 THEN "done"
                ELSE IF analysis_type = "Single File Analysis" THEN "single"
                ELSE "batch_button"
    /\ UNCHANGED <<GOOGLE_API_KEY, uploaded_files, results, selected_text, idx,
                   extractCalls, disk, llmCalls, stErrors, uncaught, shown,
                   downloads, invocation, outcome>>

\* Lines 151-161: the selected file is extracted with the chosen parser.
SingleExtract ==
    /\ pc = "single"
    /\ \E selected \in 1..Len(uploaded_files),
          parser_choice \in {"PyMuPDF", "PyPDF2"} :
          LET ex == extract_text_from_pdf(uploaded_files[selected],
                                          parser_choice, disk)
          IN  /\ disk' = ex.fs
              /\ stErrors' = stErrors \o ex.errors
              /\ selected_text' = ex.ret
              /\ uncaught' = ex.exc
              /\ pc' = IF ex.exc # "none" THEN "crashed"
                       ELSE IF Truthy(ex.ret) THEN "single_summary"
                       ELSE "done"
    /\ extractCalls' = extractCalls + 1
    /\ UNCHANGED <<GOOGLE_API_KEY, uploaded_files, results, idx, llmCalls,
                   shown, downloads, invocation, outcome>>

\* Lines 164-169: the summary button.
SingleSummary ==
    /\ pc = "single_summary"
    /\ \/ /\ pc' = "single_qa"
          /\ UNCHANGED <<llmCalls, stErrors, uncaught>>
       \/ \E reply \in SummaryReplies :
             LET s == generate_summary(selected_text.v, reply)
             IN  /\ llmCalls' = llmCalls \o s.calls
                 /\ stErrors' = stErrors \o s.errors
                 /\ uncaught' = s.exc
                 /\ pc' = IF s.exc # "none" THEN "crashed" ELSE "single_qa"
    /\ UNCHANGED <<GOOGLE_API_KEY, uploaded_files, results, selected_text, idx,
                   extractCalls, disk, shown, downloads, invocation, outcome>>

\* Lines 172-196: the question type, the slider and the Q&A button.
SingleQa ==
    /\ pc = "single_qa"
    /\ \/ /\ pc' = "done"
          /\ UNCHANGED <<llmCalls, stErrors, uncaught, downloads>>
       \/ \E question_type \in {"factual", "conceptual", "analytical", "application"},
             num_questions \in {1, 10},
             reply \in LlmReplies :
             LET q  == generate_custom_qa(selected_text.v, question_type,
                                          num_questions, reply)
                 sh == single_qa_shown(q.ret)
                 e  == IF q.exc # "none" THEN q.exc ELSE sh.exc
             IN  /\ llmCalls' = llmCalls \o q.calls
                 /\ stErrors' = stErrors \o q.errors
                 /\ downloads' = IF q.exc # "none" THEN {} ELSE sh.downloads
                 /\ uncaught' = e
                 /\ pc' = IF e # "none" THEN "crashed" ELSE "done"
    /\ UNCHANGED <<GOOGLE_API_KEY, uploaded_files, results, selected_text, idx,
                   extractCalls, disk, shown, invocation, outcome>>

\* Line 202: the button starts process_multiple_pdfs (line 102: results = []).
BatchButton ==
    /\ pc = "batch_button"
    /\ \E pressed \in BOOLEAN :
          /\ pc' = IF pressed THEN "batch" ELSE "done"
          /\ idx' = IF pressed THEN 1 ELSE idx
    /\ results' = <<>>
    /\ UNCHANGED <<GOOGLE_API_KEY, uploaded_files, selected_text, extractCalls,
                   disk, llmCalls, stErrors, uncaught, shown, downloads,
                   invocation, outcome>>

\* Lines 104-114: one iteration of the loop of process_multiple_pdfs.
BatchFile ==
    /\ pc = "batch"
    /\ idx <= Len(uploaded_files)
    /\ \E summaryReply \in SummaryReplies, qaReply \in LlmReplies :
          LET r == process_file(uploaded_files[idx], results, disk,
                                summaryReply, qaReply)
          IN  /\ results' = r.results
              /\ disk' = r.fs
              /\ llmCalls' = llmCalls \o r.calls
              /\ stErrors' = stErrors \o r.errors
              /\ uncaught' = r.exc
              /\ pc' = IF r.exc # "none" THEN "crashed" ELSE "batch"
              /\ idx' = IF r.exc # "none" THEN idx ELSE idx + 1
    /\ extractCalls' = extractCalls + 1
    /\ UNCHANGED <<GOOGLE_API_KEY, uploaded_files, selected_text, shown,
                   downloads, invocation, outcome>>

\* Line 116: return results.
BatchReturn ==
    /\ pc = "batch"
    /\ idx > Len(uploaded_files)
    /\ pc' = "returned"
    /\ UNCHANGED <<GOOGLE_API_KEY, uploaded_files, results, selected_text, idx,
                   extractCalls, disk, llmCalls, stErrors, uncaught, shown,
                   downloads, invocation, outcome>>

\* Lines 206-228: main shows what process_multiple_pdfs returned.
Display ==
    /\ pc = "returned"
    /\ LET d == display_results(results)
       IN  /\ shown' = d.shown
           /\ downloads' = d.downloads
           /\ uncaught' = d.exc
           /\ pc' = IF d.exc # "none" THEN "crashed" ELSE "done"
    /\ UNCHANGED <<GOOGLE_API_KEY, uploaded_files, results, selected_text, idx,
                   extractCalls, disk, llmCalls, stErrors, invocation, outcome>>

Next ==
    \/ Configure
    \/ ChooseAnalysis
    \/ SingleExtract
    \/ SingleSummary
    \/ SingleQa
    \/ BatchButton
    \/ BatchFile
    \/ BatchReturn
    \/ Display

Spec == Init /\ [][Next]_vars

----------------------------------------------------------------------------
(* One direct invocation of a function of the module. *)

Chars == <<"x", "y", "z">>

\* A text of n characters in which neighbouring characters differ.
TextOf(n) == [i \in 1..n |-> Chars[(i % 3) + 1]]

\* Lengths below, at and above the truncation limit.
TextLens ==
    {0, 1, 3, SummaryTextLimit - 1, SummaryTextLimit, SummaryTextLimit + 1,
     SummaryTextLimit + ExtraLen}

Texts == {TextOf(n) : n \in TextLens}

\* The four keys of prompt_templates and two strings that are not keys.
QuestionTypeInputs ==
    {"factual", "conceptual", "analytical", "application", "trivia", ""}

InitApi ==
    /\ pc = "idle"
    /\ GOOGLE_API_KEY = <<"k", "e", "y">>
    /\ uploaded_files = <<>>
    /\ results = <<>>
    /\ selected_text = None
    /\ idx = 0
    /\ extractCalls = 0
    /\ disk = {}
    /\ llmCalls = <<>>
    /\ stErrors = <<>>
    /\ uncaught = "none"
    /\ shown = 0
    /\ downloads = {}
    /\ invocation = [f |-> "none"]
    /\ outcome = NoOutcome

CallExtract ==
    /\ pc = "idle"
    /\ \E k \in PdfKinds, parser_choice \in {"PyMuPDF", "PyPDF2", "pdfminer"} :
          LET r == extract_text_from_pdf(UploadedFile(1, k), parser_choice, disk)
          IN  /\ invocation' = [f |-> "extract_text_from_pdf",
                                pdf_file |-> UploadedFile(1, k),
                                parser_choice |-> parser_choice]
              /\ outcome' = [ret |-> r.ret, exc |-> r.exc]
              /\ disk' = r.fs
              /\ stErrors' = stErrors \o r.errors
    /\ extractCalls' = extractCalls + 1
    /\ pc' = "returned"
    /\ UNCHANGED <<GOOGLE_API_KEY, uploaded_files, results, selected_text, idx,
                   llmCalls, uncaught, shown, downloads>>

CallSummary ==
    /\ pc = "idle"
    /\ \E input \in Texts, reply \in LlmReplies :
          LET r == generate_summary(input, reply)
          IN  /\ invocation' = [f |-> "generate_summary", text |-> input,
                                reply |-> reply]
              /\ outcome' = [ret |-> r.ret, exc |-> r.exc]
              /\ llmCalls' = llmCalls \o r.calls
              /\ stErrors' = stErrors \o r.errors
    /\ pc' = "returned"
    /\ UNCHANGED <<GOOGLE_API_KEY, uploaded_files, results, selected_text, idx,
                   extractCalls, disk, uncaught, shown, downloads>>

CallQa ==
    /\ pc = "idle"
    /\ \E input \in Texts, question_type \in QuestionTypeInputs,
          num_questions \in {1, 5}, reply \in LlmReplies :
          LET r == generate_custom_qa(input, question_type, num_questions, reply)
          IN  /\ invocation' = [f |-> "generate_custom_qa", text |-> input,
                                question_type |-> question_type,
                                num_questions |-> num_questions,
                                reply |-> reply]
              /\ outcome' = [ret |-> r.ret, exc |-> r.exc]
              /\ llmCalls' = llmCalls \o r.calls
              /\ stErrors' = stErrors \o r.errors
    /\ pc' = "returned"
    /\ UNCHANGED <<GOOGLE_API_KEY, uploaded_files, results, selected_text, idx,
                   extractCalls, disk, uncaught, shown, downloads>>

NextApi ==
    \/ CallExtract
    \/ CallSummary
    \/ CallQa

SpecApi == InitApi /\ [][NextApi]_vars

----------------------------------------------------------------------------
(* Properties. *)

\* What process_multiple_pdfs's call of extract_text_from_pdf returns for a file.
BatchExtracted(file) == extract_text_from_pdf(file, "PyMuPDF", {}).ret

\* C1: process_multiple_pdfs returns exactly one entry per input document, in
\* input order; a document whose extraction fails still has an entry, with
\* its summary and qa_pairs absent.
C1_OneEntryPerDocument ==
    pc = "returned" =>
        /\ Len(results) = Len(uploaded_files)
        /\ \A i \in 1..Len(uploaded_files) :
              /\ results[i].filename = uploaded_files[i].name
              /\ BatchExtracted(uploaded_files[i]).t = "None" =>
                    /\ results[i].summary.t = "None"
                    /\ results[i].qa_pairs.t = "None"

\* C2: in a batch run a failure of a per-document step never aborts the
\* batch: every document is processed and the run, main's handling of the
\* results included, ends without an uncaught error.
C2_BatchNeverAborts ==
    idx > 0 =>
        /\ uncaught = "none"
        /\ pc # "crashed"
        /\ pc \in {"returned", "done"} => extractCalls = Len(uploaded_files)

\* C3: the temporary copy extract_text_from_pdf creates no longer exists when
\* the call returns, on every exit path.
C3_TempFileRemoved ==
    (pc = "returned" /\ invocation.f = "extract_text_from_pdf") => disk = {}

IsQaRecord(x) == x.t = "dict" /\ DOMAIN x.v = {"question", "answer"}

IsQaList(x) == x.t = "list" /\ \A i \in 1..Len(x.v) : IsQaRecord(x.v[i])

\* C4: generate_custom_qa returns None unless the response text decodes to a
\* sequence of mappings with exactly the keys question and answer; a
\* well-formed sequence of N records is returned as those N records, in order.
C4_QaParseValidated ==
    (/\ pc = "returned"
     /\ invocation.f = "generate_custom_qa"
     /\ invocation.question_type \in DOMAIN prompt_templates
     /\ invocation.reply.exc = "none") =>
        /\ outcome.exc = "none"
        /\ outcome.ret.t = "None" \/ IsQaList(outcome.ret)
        /\ invocation.reply.text = RespGood =>
              outcome.ret = PyList(<<PyDict([question |-> "q1", answer |-> "a1"]),
                                     PyDict([question |-> "q2", answer |-> "a2"])>>)

\* Whether a file is one whose extraction cannot succeed.
Unextractable(pdf_file) ==
    \/ ~pdf_file.readable
    \/ ~pdf_file.wellformed
    \/ \E i \in 1..Len(pdf_file.pages) : ~pdf_file.pages[i].ok

\* C5: extract_text_from_pdf never raises to its caller, whatever the parser:
\* for a malformed PDF, an unreadable stream or a page that cannot be read it
\* reports the cause with st.error and returns None.
C5_ExtractNeverRaises ==
    (pc = "returned" /\ invocation.f = "extract_text_from_pdf") =>
        /\ outcome.exc = "none"
        /\ Unextractable(invocation.pdf_file) =>
              /\ outcome.ret.t = "None"
              /\ Len(stErrors) = 1
              /\ stErrors[1].op = "extract"
              /\ stErrors[1].cause \in ExceptionClasses
        /\ ~Unextractable(invocation.pdf_file) =>
              /\ outcome.ret.t = "str"
              /\ stErrors = <<>>

C5_Witness ==
    /\ pc = "returned"
    /\ invocation.f = "extract_text_from_pdf"
    /\ invocation.parser_choice = "PyMuPDF"
    /\ ~invocation.pdf_file.readable
    /\ outcome.ret.t = "None"
    /\ Len(stErrors) = 1

\* C6: with an empty credential main terminates in configure_gemini: no call
\* of extract_text_from_pdf, generate_summary, generate_custom_qa or the LLM
\* service is made and nothing is produced.
C6_NoCredentialNoRequest ==
    Len(GOOGLE_API_KEY) = 0 =>
        /\ pc \in {"start", "exited"}
        /\ pc = "exited" => uncaught = "SystemExit"
        /\ extractCalls = 0
        /\ llmCalls = <<>>
        /\ stErrors = <<>>
        /\ disk = {}
        /\ results = <<>>
        /\ shown = 0
        /\ downloads = {}

C6_Witness ==
    /\ pc = "exited"
    /\ Len(GOOGLE_API_KEY) = 0
    /\ Len(uploaded_files) > 0

\* C7: generate_custom_qa with a question_type outside {factual, conceptual,
\* analytical, application} signals an error to its caller and makes no call
\* of the LLM service.
C7_UnknownTypeFailsFast ==
    (/\ pc = "returned"
     /\ invocation.f = "generate_custom_qa"
     /\ invocation.question_type
            \notin {"factual", "conceptual", "analytical", "application"}) =>
        /\ outcome.exc # "none"
        /\ llmCalls = <<>>

C7_Witness ==
    /\ pc = "returned"
    /\ invocation.f = "generate_custom_qa"
    /\ invocation.question_type = "trivia"
    /\ outcome.exc = "KeyError"
    /\ llmCalls = <<>>

\* C8: a service error or a response with empty text is returned by
\* generate_summary and generate_custom_qa as None, never as an uncaught
\* error or as a successful result.
C8_NonSuccessIsNone ==
    (/\ pc = "returned"
     /\ invocation.f \in {"generate_summary", "generate_custom_qa"}
     /\ Len(llmCalls) > 0
     /\ invocation.reply.exc # "none" \/ Len(invocation.reply.text) = 0) =>
        /\ outcome.exc = "none"
        /\ outcome.ret.t = "None"

\* C9: the prompts of generate_summary and generate_custom_qa contain the
\* first 5000 characters of the input text at most: the whole text when it
\* is shorter, and never a character past position 5000.
C9_PromptTextTruncated ==
    (/\ pc = "returned"
     /\ invocation.f \in {"generate_summary", "generate_custom_qa"}) =>
        \A c \in 1..Len(llmCalls) :
            LET sent == llmCalls[c].text
                given == invocation.text
            IN  /\ Len(sent) <= 5000
                /\ Len(sent) = IF Len(given) < 5000 THEN Len(given) ELSE 5000
                /\ \A i \in 1..Len(sent) : sent[i] = given[i]
                /\ Len(given) < 5000 => sent = given

C9_Witness ==
    /\ pc = "returned"
    /\ invocation.f = "generate_custom_qa"
    /\ Len(invocation.text) > 5000
    /\ Len(llmCalls) = 1
    /\ Len(llmCalls[1].text) = 5000

\* The LLM calls of the batch for the first k uploaded files: none for a file
\* whose extraction returned None or an empty text, otherwise one summary
\* request followed by one request for 3 factual questions.
RECURSIVE ExpectedBatchCalls(_)
ExpectedBatchCalls(k) ==
    IF k = 0 THEN <<>>
    ELSE LET extracted == BatchExtracted(uploaded_files[k])
         IN  ExpectedBatchCalls(k - 1) \o
             ( IF extracted.t = "None" \/ Len(extracted.v) = 0 THEN <<>>
               ELSE << [template |-> "summary", n |-> 0, text |-> extracted.v],
                       [template |-> "Generate {n} factual questions", n |-> 3,
                        text |-> extracted.v] >> )

\* C10: in a batch run the LLM is called in a fixed pattern with no retry: no
\* call for a document whose extraction returned None or an empty text; for
\* every other document one summary call then one Q&A call (factual, 3), also
\* when the summary call failed; the calls of a document precede those of the
\* next one.
C10_BatchCallPattern ==
    idx > 0 => llmCalls = ExpectedBatchCalls(idx - 1)

C10_Witness ==
    /\ pc = "returned"
    /\ Len(uploaded_files) = 3
    /\ Len(results) = 2
    /\ results[1].summary.t = "None"
    /\ results[2].filename = "f3.pdf"
    /\ Len(llmCalls) = 4

====
